---- MODULE Spec2Model ----
(***************************************************************************)
(* Model of graphlib_rust-0.0.3 (src/graph.rs): the Graph store with its   *)
(* adjacency maps, reference counters and compound hierarchy.              *)
(*                                                                         *)
(* The Graph struct is the record held by the variable g; its fields keep  *)
(* the names of the struct's fields.  Every OrderedHashMap is a sequence   *)
(* of [k, v] entries in insertion order.  Option<T> is a sequence of       *)
(* length 0 (None) or 1 (Some).                                            *)
(***************************************************************************)
EXTENDS Integers, Sequences, FiniteSets, TLC

VARIABLES g, ret

vars == <<g, ret>>

(***************************************************************************)
(* Bounds of the model                                                     *)
(***************************************************************************)
\* no call adds an edge or nests a node under another once the edges and the
\* nested nodes of the graph number MaxLoad
MaxLoad == 2

\* the identifiers used, in lexicographic order
IdUniverse == <<"a", "b", "c", "d">>
\* the node identifiers the calls on nodes and on the hierarchy draw from
NodeIds == {"a", "b", "c"}
\* the endpoints the edge calls draw from: a self-loop and both directions
\* between two nodes
EdgeEnds == {<<"a", "a">>, <<"a", "b">>, <<"b", "a">>}

(***************************************************************************)
(* Option<T>                                                               *)
(***************************************************************************)
None == <<>>
Some(x) == <<x>>
is_some(o) == Len(o) = 1
is_none(o) == Len(o) = 0
unwrap(o) == o[1]

\* the names, labels and parents a call may pass
EdgeNames == {None, Some("e1")}
NodeLabels == {None}
EdgeLabels == {None}
Parents == {None} \cup {Some(p) : p \in NodeIds}

(***************************************************************************)
(* Program constants                                                       *)
(***************************************************************************)
DEFAULT_EDGE_NAME == "\\x00"
GRAPH_NODE == "\\x00"
EDGE_KEY_DELIM == "\\x01"
\* N::default() and E::default(), the label given when none is supplied
N_default == 0
E_default == 0

(***************************************************************************)
(* String::cmp on the identifiers: lexicographic order, which on the       *)
(* one-letter identifiers of IdUniverse is their position in it.           *)
(***************************************************************************)
StrRank(s) == CHOOSE i \in 1..Len(IdUniverse) : IdUniverse[i] = s
cmp_less(x, y) == StrRank(x) < StrRank(y)

(***************************************************************************)
(* OrderedHashMap<K, V>: entries [k, v] in insertion order                 *)
(***************************************************************************)
OMNew == <<>>
OMContains(m, k) == \E i \in 1..Len(m) : m[i].k = k
OMIndex(m, k) == CHOOSE i \in 1..Len(m) : m[i].k = k
OMGet(m, k) == m[OMIndex(m, k)].v
OMInsert(m, k, v) ==
    IF OMContains(m, k)
    THEN [i \in 1..Len(m) |-> IF m[i].k = k THEN [k |-> k, v |-> v] ELSE m[i]]
    ELSE Append(m, [k |-> k, v |-> v])
OMRemove(m, k) == SelectSeq(m, LAMBDA e : e.k # k)
OMKeys(m) == [i \in 1..Len(m) |-> m[i].k]
OMValues(m) == [i \in 1..Len(m) |-> m[i].v]
OMKeySet(m) == {m[i].k : i \in 1..Len(m)}
\* map.get_mut(k) followed by a change of the value found (k is present)
OMUpdate(m, k, v) == [i \in 1..Len(m) |-> IF m[i].k = k THEN [k |-> k, v |-> v] ELSE m[i]]

SeqToSet(s) == {s[i] : i \in 1..Len(s)}

(***************************************************************************)
(* Edge identity                                                           *)
(***************************************************************************)
Edge(v, w, name) == [v |-> v, w |-> w, name |-> name]

\* faulty variant: the endpoints of an undirected edge are not put in order
edge_args_to_id_unswapped(is_directed, v_, w_, name) ==
    IF is_some(name)
    THEN v_ \o EDGE_KEY_DELIM \o w_ \o EDGE_KEY_DELIM \o unwrap(name)
    ELSE v_ \o EDGE_KEY_DELIM \o w_ \o EDGE_KEY_DELIM \o DEFAULT_EDGE_NAME

edge_args_to_id(is_directed, v_, w_, name) ==
    LET swap == ~is_directed /\ cmp_less(w_, v_)
        v == IF swap THEN w_ ELSE v_
        w == IF swap THEN v_ ELSE w_
    IN  IF is_some(name)
        THEN v \o EDGE_KEY_DELIM \o w \o EDGE_KEY_DELIM \o unwrap(name)
        ELSE v \o EDGE_KEY_DELIM \o w \o EDGE_KEY_DELIM \o DEFAULT_EDGE_NAME

\* faulty variant: the record of an undirected edge keeps the endpoints in
\* the order of the call
edge_args_to_obj_unswapped(is_directed, v_, w_, name) == Edge(v_, w_, name)

edge_args_to_obj(is_directed, v_, w_, name) ==
    LET swap == ~is_directed /\ cmp_less(w_, v_)
    IN  Edge(IF swap THEN w_ ELSE v_, IF swap THEN v_ ELSE w_, name)

edge_obj_to_id(is_directed, edge) ==
    edge_args_to_id(is_directed, edge.v, edge.w, edge.name)

(***************************************************************************)
(* Graph::default and Graph::new                                           *)
(***************************************************************************)
GraphDefault ==
    [ _is_directed |-> TRUE, _is_multigraph |-> FALSE, _is_compound |-> FALSE,
      _nodes |-> OMNew, _in |-> OMNew, _preds |-> OMNew, _out |-> OMNew,
      _sucs |-> OMNew, _edge_objs |-> OMNew, _edge_labels |-> OMNew,
      _node_count |-> 0, _edge_count |-> 0,
      _parent |-> OMNew, _children |-> OMNew ]

\* faulty variant: a graph built with options is undirected unless the
\* directed option is set to true
GraphNew_undirected_unless_set(opts) ==
    LET G1 == IF is_some(opts)
              THEN [GraphDefault EXCEPT
                      !._is_directed = IF is_some(unwrap(opts).directed)
                                       THEN unwrap(unwrap(opts).directed) ELSE FALSE,
                      !._is_multigraph = IF is_some(unwrap(opts).multigraph)
                                         THEN unwrap(unwrap(opts).multigraph) ELSE FALSE,
                      !._is_compound = IF is_some(unwrap(opts).compound)
                                       THEN unwrap(unwrap(opts).compound) ELSE FALSE]
              ELSE GraphDefault
    IN  IF G1._is_compound
        THEN [G1 EXCEPT !._children = OMInsert(OMNew, GRAPH_NODE, OMNew)]
        ELSE G1

\* opts is None or Some of a record of three Option<bool>
GraphNew(opts) ==
    LET G0 == GraphDefault
        G1 == IF is_some(opts)
              THEN LET o == unwrap(opts) IN
                   [G0 EXCEPT
                      !._is_directed = IF is_some(o.directed) THEN unwrap(o.directed) ELSE TRUE,
                      !._is_multigraph = IF is_some(o.multigraph) THEN unwrap(o.multigraph) ELSE FALSE,
                      !._is_compound = IF is_some(o.compound) THEN unwrap(o.compound) ELSE FALSE]
              ELSE G0
    IN  IF G1._is_compound
        THEN [G1 EXCEPT !._parent = OMNew,
                        !._children = OMInsert(OMNew, GRAPH_NODE, OMNew)]
        ELSE G1

OptBool == {None, Some(TRUE), Some(FALSE)}
GraphOptions ==
    {None} \cup {Some([directed |-> d, multigraph |-> m, compound |-> c]) :
                    d \in OptBool, m \in OptBool, c \in OptBool}

(***************************************************************************)
(* Queries                                                                 *)
(***************************************************************************)
node_count(G) == G._node_count
edge_count(G) == G._edge_count
nodes(G) == OMKeys(G._nodes)
has_node(G, v) == OMContains(G._nodes, v)
edges(G) == OMValues(G._edge_objs)

parent(G, v) ==
    IF G._is_compound /\ OMContains(G._parent, v) /\ OMGet(G._parent, v) # GRAPH_NODE
    THEN Some(OMGet(G._parent, v))
    ELSE None

\* faulty variant: the root identifier gives all nodes on a compound graph too
children_all_under_root(G, v) ==
    IF v = GRAPH_NODE THEN OMKeys(G._nodes)
    ELSE IF G._is_compound /\ OMContains(G._children, v) THEN OMKeys(OMGet(G._children, v))
    ELSE <<>>

children(G, v) ==
    IF G._is_compound
    THEN IF OMContains(G._children, v) THEN OMKeys(OMGet(G._children, v)) ELSE <<>>
    ELSE IF v = GRAPH_NODE THEN OMKeys(G._nodes)
    ELSE <<>>

predecessors(G, v) ==
    IF OMContains(G._preds, v) THEN Some(OMKeys(OMGet(G._preds, v))) ELSE None

successors(G, v) ==
    IF OMContains(G._sucs, v) THEN Some(OMKeys(OMGet(G._sucs, v))) ELSE None

has_edge(G, v, w, name) ==
    OMContains(G._edge_labels, edge_args_to_id(G._is_directed, v, w, name))

(***************************************************************************)
(* Nodes                                                                   *)
(***************************************************************************)
default_node_label(G, node_id) == N_default

\* map.entry(k).or_insert(OrderedHashMap::new())
entry_or_insert(m, k) == IF OMContains(m, k) THEN m ELSE OMInsert(m, k, OMNew)

\* faulty variant: a present node without a supplied label gets the default
set_node_existing_resets(G, v, value) ==
    [G EXCEPT !._nodes = OMInsert(@, v, IF is_some(value) THEN unwrap(value)
                                        ELSE default_node_label(G, v))]

\* faulty variant: a present node that gets a label is taken out and put in
\* again
set_node_existing_reinserts(G, v, value) ==
    IF is_some(value)
    THEN [G EXCEPT !._nodes = OMInsert(OMRemove(@, v), v, unwrap(value))]
    ELSE G

\* set_node on a present id: the label is replaced when one is supplied
set_node_existing(G, v, value) ==
    IF is_some(value)
    THEN [G EXCEPT !._nodes = OMInsert(@, v, unwrap(value))]
    ELSE G

\* _children.entry(GRAPH_NODE).or_insert(..).entry(v).or_insert(true), the
\* entry of GRAPH_NODE being present
root_entry_or_insert(C, v) ==
    IF OMContains(OMGet(C, GRAPH_NODE), v) THEN C
    ELSE OMUpdate(C, GRAPH_NODE, OMInsert(OMGet(C, GRAPH_NODE), v, TRUE))

\* set_node on a compound graph: the new node goes under the root
set_node_attach(G, v) ==
    [G EXCEPT !._parent = OMInsert(@, v, GRAPH_NODE),
              !._children = root_entry_or_insert(
                                entry_or_insert(OMInsert(@, v, OMNew), GRAPH_NODE), v)]

\* set_node on an absent id, once its label is stored
set_node_maps(G, v) ==
    [G EXCEPT !._in = OMInsert(@, v, OMNew),
              !._preds = OMInsert(@, v, OMNew),
              !._out = OMInsert(@, v, OMNew),
              !._sucs = OMInsert(@, v, OMNew),
              !._node_count = @ + 1]

\* set_node on an absent id
set_node_create(G, v, value) ==
    set_node_maps(
        IF G._is_compound
        THEN set_node_attach(
                 [G EXCEPT !._nodes = OMInsert(@, v, IF is_some(value) THEN unwrap(value)
                                                     ELSE default_node_label(G, v))], v)
        ELSE [G EXCEPT !._nodes = OMInsert(@, v, IF is_some(value) THEN unwrap(value)
                                                 ELSE default_node_label(G, v))],
        v)

\* faulty variant: the early return for a present id is missing
set_node_always_creates(G, v, value) == set_node_create(G, v, value)

set_node(G, v, value) ==
    IF OMContains(G._nodes, v)
    THEN set_node_existing(G, v, value)
    ELSE set_node_create(G, v, value)

(***************************************************************************)
(* Reference counters of preds / sucs                                      *)
(***************************************************************************)
increment_or_init_entry(map, k) ==
    IF OMContains(map, k)
    THEN OMUpdate(map, k, OMGet(map, k) + 1)
    ELSE OMInsert(map, k, 1)

\* faulty variant: an entry that reaches zero is kept
decrement_keeps_zero(map, k) ==
    IF OMContains(map, k)
    THEN OMUpdate(map, k, OMGet(map, k) - 1)
    ELSE map

decrement_or_remove_entry(map, k) ==
    IF OMContains(map, k)
    THEN IF OMGet(map, k) - 1 <= 0
         THEN OMRemove(map, k)
         ELSE OMUpdate(map, k, OMGet(map, k) - 1)
    ELSE map

(***************************************************************************)
(* Edges                                                                   *)
(***************************************************************************)
default_edge_label(G, edge_id) == E_default

\* the result of a call that returns Result<&mut Self, _>
Result(G, r) == [g |-> G, ret |-> r]

\* faulty variant: the stored edge is counted again
set_edge_existing_counts(G, e, edge_label) ==
    IF is_some(edge_label)
    THEN [G EXCEPT !._edge_labels = OMInsert(@, e, unwrap(edge_label)),
                   !._edge_count = @ + 1]
    ELSE [G EXCEPT !._edge_count = @ + 1]

\* set_edge on a key that is stored: the label is replaced when one is supplied
set_edge_existing(G, e, edge_label) ==
    IF is_some(edge_label)
    THEN [G EXCEPT !._edge_labels = OMInsert(@, e, unwrap(edge_label))]
    ELSE G

\* set_edge: the preds / sucs counters of the new edge v -> w
set_edge_counters(G, v, w) ==
    [G EXCEPT !._preds = IF OMContains(@, w)
                         THEN OMUpdate(@, w, increment_or_init_entry(OMGet(@, w), v))
                         ELSE @,
              !._sucs = IF OMContains(@, v)
                        THEN OMUpdate(@, v, increment_or_init_entry(OMGet(@, v), w))
                        ELSE @]

\* map.entry(k).or_insert_with(OrderedHashMap::new).insert(ik, iv)
entry_insert(m, k, ik, iv) == OMUpdate(m, k, OMInsert(OMGet(m, k), ik, iv))

\* set_edge: the in / out entries of the new edge
set_edge_adjacency(G, e, edge_obj) ==
    [G EXCEPT !._in = entry_insert(entry_or_insert(@, edge_obj.w), edge_obj.w, e, edge_obj),
              !._out = entry_insert(entry_or_insert(@, edge_obj.v), edge_obj.v, e, edge_obj)]

\* set_edge on a key that is not stored, once both endpoints are nodes
set_edge_store(G, e, edge_obj, edge_label) ==
    [set_edge_adjacency(
        set_edge_counters(
            [G EXCEPT !._edge_labels =
                          OMInsert(@, e, IF is_some(edge_label) THEN unwrap(edge_label)
                                         ELSE default_edge_label(G, e)),
                      !._edge_objs = OMInsert(@, e, edge_obj)],
            edge_obj.v, edge_obj.w),
        e, edge_obj)
     EXCEPT !._edge_count = @ + 1]

\* set_edge on a key that is not stored, once the name has been accepted
set_edge_create(G, v_, w_, edge_label, name) ==
    set_edge_store(set_node(set_node(G, v_, None), w_, None),
                   edge_args_to_id(G._is_directed, v_, w_, name),
                   edge_args_to_obj(G._is_directed, v_, w_, name),
                   edge_label)

\* faulty variant: a named edge is not refused on a graph that is no multigraph
set_edge_accepts_name(G, v_, w_, edge_label, name) ==
    IF OMContains(G._edge_labels, edge_args_to_id(G._is_directed, v_, w_, name))
    THEN Result(set_edge_existing(G, edge_args_to_id(G._is_directed, v_, w_, name),
                                  edge_label), "Ok")
    ELSE Result(set_edge_create(G, v_, w_, edge_label, name), "Ok")

set_edge(G, v_, w_, edge_label, name) ==
    IF OMContains(G._edge_labels, edge_args_to_id(G._is_directed, v_, w_, name))
    THEN Result(set_edge_existing(G, edge_args_to_id(G._is_directed, v_, w_, name),
                                  edge_label), "Ok")
    ELSE IF is_some(name) /\ ~G._is_multigraph
    THEN Result(G, "ErrNamedEdge")
    ELSE Result(set_edge_create(G, v_, w_, edge_label, name), "Ok")

\* remove_edge: the preds / sucs counters of the removed edge v -> w
remove_edge_counters(G, v, w) ==
    [G EXCEPT !._preds = IF OMContains(@, w)
                         THEN OMUpdate(@, w, decrement_or_remove_entry(OMGet(@, w), v))
                         ELSE @,
              !._sucs = IF OMContains(@, v)
                        THEN OMUpdate(@, v, decrement_or_remove_entry(OMGet(@, v), w))
                        ELSE @]

\* faulty variant: the entry of the in map is left behind
remove_edge_adjacency_keeps_in(G, v, w, e) ==
    IF OMContains(G._out, v)
    THEN [G EXCEPT !._out = OMUpdate(@, v, OMRemove(OMGet(@, v), e))]
    ELSE G

\* remove_edge: the in / out entries of the removed edge
remove_edge_adjacency(G, v, w, e) ==
    [G EXCEPT !._in = IF OMContains(@, w)
                      THEN OMUpdate(@, w, OMRemove(OMGet(@, w), e))
                      ELSE @,
              !._out = IF OMContains(@, v)
                       THEN OMUpdate(@, v, OMRemove(OMGet(@, v), e))
                       ELSE @]

\* remove_edge on a key e that is stored with the record edge
remove_edge_stored(G, e, edge) ==
    [remove_edge_adjacency(
        remove_edge_counters(
            [G EXCEPT !._edge_labels = OMRemove(@, e),
                      !._edge_objs = OMRemove(@, e)],
            edge.v, edge.w),
        edge.v, edge.w, e)
     EXCEPT !._edge_count = @ - 1]

\* faulty variant: the name is not part of the key that is removed
remove_edge_any_name(G, v_, w_, name) ==
    IF OMContains(G._edge_objs, edge_args_to_id(G._is_directed, v_, w_, None))
    THEN remove_edge_stored(G, edge_args_to_id(G._is_directed, v_, w_, None),
                            OMGet(G._edge_objs,
                                  edge_args_to_id(G._is_directed, v_, w_, None)))
    ELSE G

remove_edge(G, v_, w_, name) ==
    IF OMContains(G._edge_objs, edge_args_to_id(G._is_directed, v_, w_, name))
    THEN remove_edge_stored(G, edge_args_to_id(G._is_directed, v_, w_, name),
                            OMGet(G._edge_objs,
                                  edge_args_to_id(G._is_directed, v_, w_, name)))
    ELSE G

remove_edge_with_obj(G, e) == remove_edge(G, e.v, e.w, e.name)

\* edge(v, w, name): the label stored under the canonical key, if any
edge(G, v, w, name) ==
    IF OMContains(G._edge_labels, edge_args_to_id(G._is_directed, v, w, name))
    THEN Some(OMGet(G._edge_labels, edge_args_to_id(G._is_directed, v, w, name)))
    ELSE None

(***************************************************************************)
(* Compound hierarchy                                                      *)
(***************************************************************************)
\* faulty variant: the node stays in the child list of its former parent
_remove_from_parents_child_list_noop(G, v) == G

_remove_from_parents_child_list(G, v) ==
    IF OMContains(G._parent, v) /\ OMContains(G._children, OMGet(G._parent, v))
    THEN [G EXCEPT !._children =
             OMUpdate(@, OMGet(G._parent, v), OMRemove(OMGet(@, OMGet(G._parent, v)), v))]
    ELSE G

\* faulty variant: only the parent of the proposed parent is compared with v
ancestor_walk_one_step(G, ancestor, v, passed) ==
    IF is_none(parent(G, ancestor)) THEN "Ok"
    ELSE IF unwrap(parent(G, ancestor)) = v THEN "ErrCycle"
    ELSE "Ok"

\* The ancestor loop of set_parent: "Ok" when parent(ancestor) becomes None,
\* "ErrCycle" when it is v.  The loop has no other exit: when the chain
\* comes back to a node it has already passed, the loop runs for ever
\* ("Diverges").  passed holds the nodes the loop has been at.
RECURSIVE ancestor_walk(_, _, _, _)
ancestor_walk(G, ancestor, v, passed) ==
    IF is_none(parent(G, ancestor)) THEN "Ok"
    ELSE IF unwrap(parent(G, ancestor)) = v THEN "ErrCycle"
    ELSE IF unwrap(parent(G, ancestor)) \in passed THEN "Diverges"
    ELSE ancestor_walk(G, unwrap(parent(G, ancestor)), v,
                       passed \cup {unwrap(parent(G, ancestor))})

\* set_parent: the links of v under _parent, both being nodes (or _parent
\* the root) and v taken out of its former parent's child list
set_parent_link(G, v, _parent) ==
    [G EXCEPT !._parent = OMInsert(@, v, _parent),
              !._children = entry_insert(entry_or_insert(@, _parent), _parent, v, TRUE)]

\* set_parent once the ancestor loop has ended with walk
set_parent_walked(G, v, parent_, walk) ==
    IF walk # "Ok" THEN Result(G, walk)
    ELSE IF is_none(parent_)
    THEN Result(set_parent_link(
                    _remove_from_parents_child_list(set_node(G, v, None), v),
                    v, GRAPH_NODE), "Ok")
    ELSE Result(set_parent_link(
                    _remove_from_parents_child_list(
                        set_node(set_node(G, unwrap(parent_), None), v, None), v),
                    v, unwrap(parent_)), "Ok")

\* set_parent once the graph is known to be compound
set_parent_compound(G, v, parent_) ==
    set_parent_walked(G, v, parent_,
                      IF is_none(parent_) THEN "Ok"
                      ELSE ancestor_walk(G, unwrap(parent_), v, {unwrap(parent_)}))

\* faulty variant: the compound flag is not looked at
set_parent_unchecked(G, v, parent_) == set_parent_compound(G, v, parent_)

set_parent(G, v, parent_) ==
    IF ~G._is_compound
    THEN Result(G, "ErrNotCompound")
    ELSE set_parent_compound(G, v, parent_)

(***************************************************************************)
(* remove_node                                                             *)
(***************************************************************************)
\* children(v).iter().for_each(|child_id| { let _ = set_parent(child_id, None); })
RECURSIVE reparent_children(_, _, _)
reparent_children(G, child_ids, i) ==
    IF i > Len(child_ids) THEN G
    ELSE reparent_children(set_parent(G, child_ids[i], None).g, child_ids, i + 1)

\* remove_node on a compound graph, v being out of the parent map: its
\* children go to the root and its child list is dropped
remove_node_children(G, v) ==
    [reparent_children(G, children(G, v), 1) EXCEPT !._children = OMRemove(@, v)]

\* remove_node on a compound graph: the hierarchy links of v
remove_node_hierarchy(G, v) ==
    remove_node_children(
        [_remove_from_parents_child_list(G, v) EXCEPT !._parent = OMRemove(@, v)], v)

\* edge_ids.iter().for_each(|edge_id| if let Some(edge) = _edge_objs.get(edge_id)
\*                                      { remove_edge_with_obj(edge) })
RECURSIVE remove_edges_by_id(_, _, _)
remove_edges_by_id(G, edge_ids, i) ==
    IF i > Len(edge_ids) THEN G
    ELSE remove_edges_by_id(
            IF OMContains(G._edge_objs, edge_ids[i])
            THEN remove_edge_with_obj(G, OMGet(G._edge_objs, edge_ids[i]))
            ELSE G,
            edge_ids, i + 1)

remove_node_in_edges(G, v) ==
    IF OMContains(G._in, v)
    THEN [remove_edges_by_id(G, OMKeys(OMGet(G._in, v)), 1) EXCEPT !._in = OMRemove(@, v)]
    ELSE G

\* faulty variant: the out map of v is dropped without removing its edges
remove_node_out_edges_dropped(G, v) == [G EXCEPT !._out = OMRemove(@, v)]

remove_node_out_edges(G, v) ==
    IF OMContains(G._out, v)
    THEN [remove_edges_by_id(G, OMKeys(OMGet(G._out, v)), 1) EXCEPT !._out = OMRemove(@, v)]
    ELSE G

\* faulty variant: the preds entry of the removed node is left behind
remove_node_present_keeps_preds(G, v) ==
    [remove_node_out_edges(
        remove_node_in_edges(
            IF G._is_compound THEN remove_node_hierarchy(G, v) ELSE G, v),
        v)
     EXCEPT !._sucs = OMRemove(@, v), !._node_count = @ - 1]

\* remove_node on a present v, once v is out of _nodes
remove_node_present(G, v) ==
    [remove_node_out_edges(
        [remove_node_in_edges(
            IF G._is_compound THEN remove_node_hierarchy(G, v) ELSE G, v)
         EXCEPT !._preds = OMRemove(@, v)],
        v)
     EXCEPT !._sucs = OMRemove(@, v), !._node_count = @ - 1]

remove_node(G, v) ==
    IF OMContains(G._nodes, v)
    THEN remove_node_present([G EXCEPT !._nodes = OMRemove(@, v)], v)
    ELSE G

(***************************************************************************)
(* filter_nodes                                                            *)
(***************************************************************************)
has_edge_with_obj(G, e) ==
    OMContains(G._edge_labels, edge_obj_to_id(G._is_directed, e))

edge_with_obj(G, e) ==
    IF OMContains(G._edge_labels, edge_obj_to_id(G._is_directed, e))
    THEN Some(OMGet(G._edge_labels, edge_obj_to_id(G._is_directed, e)))
    ELSE None

set_edge_with_obj(G, e, edge_label) == set_edge(G, e.v, e.w, edge_label, None)

\* for (v, value) in self._nodes.iter() { if filter(v) { copy.set_node(..) } }
\* filter is the set of the ids the predicate accepts
RECURSIVE filter_nodes_nodes(_, _, _, _)
filter_nodes_nodes(G, filter, copy, i) ==
    IF i > Len(G._nodes) THEN copy
    ELSE filter_nodes_nodes(G, filter,
            IF G._nodes[i].k \in filter
            THEN set_node(copy, G._nodes[i].k, Some(G._nodes[i].v))
            ELSE copy,
            i + 1)

\* for e_v in self._edge_objs.values() { .. copy.set_edge_with_obj(..) }
RECURSIVE filter_nodes_edges(_, _, _)
filter_nodes_edges(G, copy, i) ==
    IF i > Len(G._edge_objs) THEN copy
    ELSE filter_nodes_edges(G,
            IF /\ OMContains(copy._nodes, G._edge_objs[i].v.v)
               /\ OMContains(copy._nodes, G._edge_objs[i].v.w)
               /\ is_some(edge_with_obj(G, G._edge_objs[i].v))
            THEN set_edge_with_obj(copy, G._edge_objs[i].v,
                                   edge_with_obj(G, G._edge_objs[i].v)).g
            ELSE copy,
            i + 1)

\* what find_parent hands back: the parent found and the parents map; a
\* recursion that comes back to a node it has passed never returns
\* (returned = FALSE), since nothing it reads has changed
Found(p, parents) == [returned |-> TRUE, p |-> p, parents |-> parents]
NeverFound(parents) == [returned |-> FALSE, p |-> None, parents |-> parents]

RECURSIVE find_parent(_, _, _, _, _)
find_parent(v, parents, copy, graph, passed) ==
    IF is_none(parent(graph, v)) THEN Found(None, parents)
    ELSE IF OMContains(copy._nodes, unwrap(parent(graph, v)))
    THEN Found(parent(graph, v), OMInsert(parents, v, unwrap(parent(graph, v))))
    ELSE IF OMContains(parents, unwrap(parent(graph, v)))
    THEN Found(Some(OMGet(parents, unwrap(parent(graph, v)))), parents)
    ELSE IF unwrap(parent(graph, v)) \in passed THEN NeverFound(parents)
    ELSE find_parent(unwrap(parent(graph, v)), parents, copy, graph,
                     passed \cup {unwrap(parent(graph, v))})

\* one round of the parent loop, r being what copy.set_parent(v, parent)
\* gave; its error is dropped (let _ =), its endless loop is not
filter_nodes_set_parent(parents, r) ==
    [copy |-> r.g, parents |-> parents,
     ret |-> IF r.ret = "Diverges" THEN "Diverges" ELSE "Ok"]

\* one round of the parent loop, found being what find_parent gave
filter_nodes_parent(st, v, found) ==
    IF found.returned
    THEN filter_nodes_set_parent(found.parents, set_parent(st.copy, v, found.p))
    ELSE [st EXCEPT !.ret = "Overflow"]

\* for v in node_ids { let parent = find_parent(..); copy.set_parent(&v, parent) }
RECURSIVE filter_nodes_parents(_, _, _, _)
filter_nodes_parents(G, st, node_ids, i) ==
    IF i > Len(node_ids) \/ st.ret # "Ok" THEN st
    ELSE filter_nodes_parents(G,
            filter_nodes_parent(st, node_ids[i],
                find_parent(node_ids[i], st.parents, st.copy, G, {node_ids[i]})),
            node_ids, i + 1)

\* filter_nodes once the nodes and edges are copied
filter_nodes_hierarchy(G, copy) ==
    IF G._is_compound
    THEN filter_nodes_parents(G, [copy |-> copy, parents |-> OMNew, ret |-> "Ok"],
                              OMKeys(copy._nodes), 1)
    ELSE [copy |-> copy, parents |-> OMNew, ret |-> "Ok"]

\* filter_nodes(filter): .copy is the graph returned when .ret = "Ok"
filter_nodes(G, filter) ==
    filter_nodes_hierarchy(G,
        filter_nodes_edges(G,
            filter_nodes_nodes(G, filter,
                GraphNew(Some([directed |-> Some(G._is_directed),
                               multigraph |-> Some(G._is_multigraph),
                               compound |-> Some(G._is_compound)])),
                1),
            1))

(***************************************************************************)
(* Traversal (algo/dfs.rs, preorder.rs, postorder.rs)                      *)
(*                                                                         *)
(* neighbors() collects the ids in a HashSet and returns them in the order *)
(* the set iterates in, which is any order.  hash_order gives, for each    *)
(* node, the order its neighbours come out in; a traversal expands a node  *)
(* at most once, so one order per node covers every run.                   *)
(***************************************************************************)
\* faulty variant: the successors are not added to the union
neighbors_preds_only(G, v) ==
    IF is_some(predecessors(G, v))
    THEN Some(SeqToSet(unwrap(predecessors(G, v))))
    ELSE None

\* neighbors(v) as the set of ids listed
neighbors(G, v) ==
    IF is_some(predecessors(G, v))
    THEN Some(SeqToSet(unwrap(predecessors(G, v))) \cup
              (IF is_some(successors(G, v)) THEN SeqToSet(unwrap(successors(G, v)))
               ELSE {}))
    ELSE None

\* the orders in which a HashSet holding S may iterate
Orders(S) == {o \in [1..Cardinality(S) -> S] : \A x \in S : \E i \in 1..Cardinality(S) : o[i] = x}

navigation(G, v, hash_order) ==
    IF G._is_directed
    THEN IF is_some(successors(G, v)) THEN unwrap(successors(G, v)) ELSE <<>>
    ELSE IF is_some(neighbors(G, v)) THEN hash_order[v] ELSE <<>>

\* the locals of dfs and of the order function it calls; ret is "Ok" while
\* the call runs on
DfsStart == [stack |-> <<>>, visited |-> {}, acc |-> <<>>, ret |-> "Ok"]

\* faulty variant: the navigation nodes are pushed first to last, so the
\* last one is popped first
post_order_push_forward(_navigation_nodes, idx, stack) ==
    stack \o [i \in 1..idx |-> <<_navigation_nodes[i], FALSE>>]

\* while idx > 0 { stack.push((_navigation_nodes.get(idx - 1)..unwrap(), false)); idx -= 1 }
RECURSIVE post_order_push(_, _, _)
post_order_push(_navigation_nodes, idx, stack) ==
    IF idx > 0
    THEN post_order_push(_navigation_nodes, idx - 1,
                         Append(stack, <<_navigation_nodes[idx], FALSE>>))
    ELSE stack

\* faulty variant: the node is emitted when it is first visited
post_order_emit_on_entry(G, hash_order, st, curr, rest) ==
    IF curr[2] THEN [st EXCEPT !.stack = rest]
    ELSE IF curr[1] \notin st.visited
    THEN [st EXCEPT !.visited = @ \cup {curr[1]},
                    !.acc = Append(@, curr[1]),
                    !.stack = post_order_push(navigation(G, curr[1], hash_order),
                                              Len(navigation(G, curr[1], hash_order)),
                                              Append(rest, <<curr[1], TRUE>>))]
    ELSE [st EXCEPT !.stack = rest]

\* one round of the loop of post_order_dfs: curr has been popped, rest is left
post_order_step(G, hash_order, st, curr, rest) ==
    IF curr[2] THEN [st EXCEPT !.stack = rest, !.acc = Append(@, curr[1])]
    ELSE IF curr[1] \notin st.visited
    THEN [st EXCEPT !.visited = @ \cup {curr[1]},
                    !.stack = post_order_push(navigation(G, curr[1], hash_order),
                                              Len(navigation(G, curr[1], hash_order)),
                                              Append(rest, <<curr[1], TRUE>>))]
    ELSE [st EXCEPT !.stack = rest]

RECURSIVE post_order_loop(_, _, _)
post_order_loop(G, hash_order, st) ==
    IF Len(st.stack) = 0 THEN st
    ELSE post_order_loop(G, hash_order,
            post_order_step(G, hash_order, st, st.stack[Len(st.stack)],
                            SubSeq(st.stack, 1, Len(st.stack) - 1)))

post_order_dfs(v, G, hash_order, st) ==
    post_order_loop(G, hash_order, [st EXCEPT !.stack = <<<<v, FALSE>>>>])

\* let mut idx = len as i32;
\* while idx >= 0 { stack.push(.. _navigation_nodes.get(idx as usize).unwrap()); idx -= 1 }
\* get(idx) is None for idx >= len, and unwrap then panics
RECURSIVE pre_order_push(_, _, _)
pre_order_push(_navigation_nodes, idx, st) ==
    IF idx < 0 THEN st
    ELSE IF idx >= Len(_navigation_nodes) THEN [st EXCEPT !.ret = "Panic"]
    ELSE pre_order_push(_navigation_nodes, idx - 1,
                        [st EXCEPT !.stack = Append(@, _navigation_nodes[idx + 1])])

\* one round of the loop of pre_order_dfs: curr has been popped, rest is left
pre_order_step(G, hash_order, st, curr, rest) ==
    IF curr \notin st.visited
    THEN pre_order_push(navigation(G, curr, hash_order),
                        Len(navigation(G, curr, hash_order)),
                        [st EXCEPT !.visited = @ \cup {curr},
                                   !.acc = Append(@, curr),
                                   !.stack = rest])
    ELSE [st EXCEPT !.stack = rest]

RECURSIVE pre_order_loop(_, _, _)
pre_order_loop(G, hash_order, st) ==
    IF Len(st.stack) = 0 \/ st.ret # "Ok" THEN st
    ELSE pre_order_loop(G, hash_order,
            pre_order_step(G, hash_order, st, st.stack[Len(st.stack)],
                           SubSeq(st.stack, 1, Len(st.stack) - 1)))

pre_order_dfs(v, G, hash_order, st) ==
    pre_order_loop(G, hash_order, [st EXCEPT !.stack = <<v>>])

\* for v in vs.iter() { if !g.has_node(v) { return Err(..) }  order_func(v, ..) }
RECURSIVE dfs_seeds(_, _, _, _, _, _)
dfs_seeds(G, vs, order, hash_order, st, i) ==
    IF i > Len(vs) \/ st.ret # "Ok" THEN st
    ELSE IF ~has_node(G, vs[i]) THEN [st EXCEPT !.ret = "ErrUnknownNode"]
    ELSE dfs_seeds(G, vs, order, hash_order,
                   IF order = "post" THEN post_order_dfs(vs[i], G, hash_order, st)
                   ELSE pre_order_dfs(vs[i], G, hash_order, st),
                   i + 1)

\* dfs(g, vs, order): .ret is "Ok" (the value is Ok(.acc)), "ErrUnknownNode"
\* or "Panic"; .visited are the nodes visited before it ended
dfs(G, vs, order, hash_order) == dfs_seeds(G, vs, order, hash_order, DfsStart, 1)

\* faulty variant: the seed is marked as visited in its node label
dfs_seed_marks_label(G, v) == set_node(G, v, Some(1))

\* what a call of dfs leaves in the graph behind g after the seed v:
\* g.has_node(v) takes &self and order_func gets g as a shared reference,
\* so the seed leaves the graph as it is
dfs_seed_graph(G, v) == G

\* the graph behind g when dfs returns or panics: the loop over the seeds
\* stops at the first seed that is no node
RECURSIVE dfs_graph_seeds(_, _, _)
dfs_graph_seeds(G, vs, i) ==
    IF i > Len(vs) THEN G
    ELSE IF ~has_node(G, vs[i]) THEN G
    ELSE dfs_graph_seeds(dfs_seed_graph(G, vs[i]), vs, i + 1)

dfs_graph(G, vs) == dfs_graph_seeds(G, vs, 1)

\* match dfs(..) { Ok(t) => t, _ => vec![] }: a panic is no value to match
swallow_error(r) ==
    [ret |-> IF r.ret = "Panic" THEN "Panic" ELSE "Ok",
     out |-> IF r.ret = "Ok" THEN r.acc ELSE <<>>]

preorder(G, vs, hash_order) == swallow_error(dfs(G, vs, "pre", hash_order))
postorder(G, vs, hash_order) == swallow_error(dfs(G, vs, "post", hash_order))

(***************************************************************************)
(* Queries on labels, incident edges and leaves                            *)
(***************************************************************************)
\* node(v): the label of v, if v is a node
node(G, v) == IF OMContains(G._nodes, v) THEN Some(OMGet(G._nodes, v)) ELSE None

\* in_edges(v, u): the records of the in map of v, those with source u when
\* u is given
in_edges(G, v, u) ==
    IF OMContains(G._in, v)
    THEN IF is_none(u) THEN Some(OMValues(OMGet(G._in, v)))
         ELSE Some(SelectSeq(OMValues(OMGet(G._in, v)), LAMBDA e : e.v = unwrap(u)))
    ELSE None

\* out_edges(v, w): the records of the out map of v, those with target w
\* when w is given
out_edges(G, v, w) ==
    IF OMContains(G._out, v)
    THEN IF is_none(w) THEN Some(OMValues(OMGet(G._out, v)))
         ELSE Some(SelectSeq(OMValues(OMGet(G._out, v)), LAMBDA e : e.w = unwrap(w)))
    ELSE None

\* faulty variant: a record that is among the in-edges is not listed again
node_edges_deduplicated(G, v, w) ==
    IF is_some(in_edges(G, v, w))
    THEN IF is_some(out_edges(G, v, w))
         THEN Some(unwrap(in_edges(G, v, w)) \o
                   SelectSeq(unwrap(out_edges(G, v, w)),
                             LAMBDA e : e \notin SeqToSet(unwrap(in_edges(G, v, w)))))
         ELSE in_edges(G, v, w)
    ELSE None

node_edges(G, v, w) ==
    IF is_some(in_edges(G, v, w))
    THEN IF is_some(out_edges(G, v, w))
         THEN Some(unwrap(in_edges(G, v, w)) \o unwrap(out_edges(G, v, w)))
         ELSE in_edges(G, v, w)
    ELSE None

\* faulty variant: a node that has children is no leaf
is_leaf_without_children(G, v) ==
    /\ children(G, v) = <<>>
    /\ IF G._is_directed
       THEN is_none(successors(G, v)) \/ Len(unwrap(successors(G, v))) = 0
       ELSE is_none(neighbors(G, v)) \/ Cardinality(unwrap(neighbors(G, v))) = 0

is_leaf(G, v) ==
    IF G._is_directed
    THEN is_none(successors(G, v)) \/ Len(unwrap(successors(G, v))) = 0
    ELSE is_none(neighbors(G, v)) \/ Cardinality(unwrap(neighbors(G, v))) = 0

(***************************************************************************)
(* The program: a graph is constructed, then any sequence of calls of the  *)
(* mutating operations is made on it.  ret is what the last call returned; *)
(* a call whose loop never exits leaves ret = "Diverges" and no later call *)
(* is made.                                                                *)
(***************************************************************************)
\* the number of nodes whose parent is a node, not the root
nested(G) == Cardinality({i \in 1..Len(G._parent) : G._parent[i].v # GRAPH_NODE})
load(G) == edge_count(G) + nested(G)

Init ==
    /\ \E opts \in GraphOptions : g = GraphNew(opts)
    /\ ret = "Ok"

SetNode ==
    \E v \in NodeIds, value \in NodeLabels :
        /\ ret # "Diverges"
        /\ g' = set_node(g, v, value)
        /\ ret' = "Ok"

RemoveNode ==
    \E v \in NodeIds :
        /\ ret # "Diverges"
        /\ g' = remove_node(g, v)
        /\ ret' = "Ok"

SetEdge ==
    \E vw \in EdgeEnds, edge_label \in EdgeLabels, name \in EdgeNames :
        /\ ret # "Diverges"
        /\ load(g) < MaxLoad \/ has_edge(g, vw[1], vw[2], name)
        /\ LET r == set_edge(g, vw[1], vw[2], edge_label, name) IN
              /\ g' = r.g
              /\ ret' = r.ret

RemoveEdge ==
    \E vw \in EdgeEnds, name \in EdgeNames :
        /\ ret # "Diverges"
        /\ g' = remove_edge(g, vw[1], vw[2], name)
        /\ ret' = "Ok"

SetParent ==
    \E v \in NodeIds, p \in Parents :
        /\ ret # "Diverges"
        /\ load(g) < MaxLoad \/ is_none(p) \/ is_some(parent(g, v))
        /\ LET r == set_parent(g, v, p) IN
              /\ g' = r.g
              /\ ret' = r.ret

Next == SetNode \/ RemoveNode \/ SetEdge \/ RemoveEdge \/ SetParent

Spec == Init /\ [][Next]_vars

(***************************************************************************)
(* Vocabulary of the properties                                            *)
(***************************************************************************)
\* the canonical keys stored, and the number of entries of the edge map
StoredKeys(G) == OMKeySet(G._edge_objs)
NoDuplicateKey(m) == \A i, j \in 1..Len(m) : m[i].k = m[j].k => i = j

\* the nodes whose edge map in adj (_in or _out) holds key e
HolderNodes(adj, e) == {adj[j].k : j \in {n \in 1..Len(adj) : OMContains(adj[n].v, e)}}
\* how many entries of all the edge maps of adj carry key e
HeldCount(adj, e) ==
    Cardinality({ji \in UNION {{<<j, i>> : i \in 1..Len(adj[j].v)} : j \in 1..Len(adj)} :
                    adj[ji[1]].v[ji[2]].k = e})

\* the stored records from v to w (any name)
EdgesBetween(G, v, w) == {o \in SeqToSet(edges(G)) : o.v = v /\ o.w = w}
\* the stored records with v as an endpoint
IncidentEdges(G, v) == {o \in SeqToSet(edges(G)) : o.v = v \/ o.w = v}
NoDuplicate(seq) == \A i, j \in 1..Len(seq) : seq[i] = seq[j] => i = j

\* C1: in every state reached by set_edge / remove_edge / remove_node calls,
\* edge_count() is the number of distinct canonical keys stored, the label map
\* holds the same keys, and the key of every stored edge is held by exactly
\* one in map, that of its w, and exactly one out map, that of its v; the in
\* and out maps hold no other key.
C1_EdgeCountAndAdjacency ==
    /\ NoDuplicateKey(g._edge_objs)
    /\ edge_count(g) = Cardinality(StoredKeys(g))
    /\ OMKeySet(g._edge_labels) = StoredKeys(g)
    /\ NoDuplicateKey(g._edge_labels)
    /\ \A n \in 1..Len(g._edge_objs) :
          LET e == g._edge_objs[n].k
              o == g._edge_objs[n].v
          IN  /\ HolderNodes(g._in, e) = {o.w}
              /\ HeldCount(g._in, e) = 1
              /\ HolderNodes(g._out, e) = {o.v}
              /\ HeldCount(g._out, e) = 1
    /\ \A j \in 1..Len(g._in) : OMKeySet(g._in[j].v) \subseteq StoredKeys(g)
    /\ \A j \in 1..Len(g._out) : OMKeySet(g._out[j].v) \subseteq StoredKeys(g)

\* C1 witness: two edges are stored, one of them named, after a call returned
C1_Witness ==
    /\ ret = "Ok"
    /\ edge_count(g) = 2
    /\ \E n \in 1..Len(g._edge_objs) : is_some(g._edge_objs[n].v.name)
    /\ \E v \in NodeIds : has_node(g, v) /\ remove_node(g, v)._edge_count = 0

\* C2: in every state reached by set_node / remove_node calls and by the
\* calls that create nodes (set_edge, set_parent), node_count() is the number
\* of distinct node ids present.
C2_NodeCount ==
    /\ NoDuplicateKey(g._nodes)
    /\ node_count(g) = Cardinality(OMKeySet(g._nodes))

\* C2 witness: nodes were created by set_edge and set_parent and one of the
\* three ids is absent (it was removed or never set)
C2_Witness ==
    /\ node_count(g) = 2
    /\ edge_count(g) = 1
    /\ nested(g) = 1
    /\ set_node(g, "c", None)._node_count = 3
    /\ remove_node(g, "a")._node_count = 1

\* C3: in every state w is listed by successors(v) iff an edge record (v, w)
\* is stored, and v by predecessors(w) on the same condition; each is listed
\* once; the counter kept for the pair is the number of those records, so no
\* counter is zero.  Hence with k parallel edges of which j < k are removed
\* the neighbour stays listed once, and with all removed it is not listed.
C3_Counters ==
    \A v \in NodeIds :
        /\ has_node(g, v) <=> OMContains(g._sucs, v)
        /\ has_node(g, v) <=> OMContains(g._preds, v)
        /\ has_node(g, v) =>
              /\ NoDuplicate(unwrap(successors(g, v)))
              /\ NoDuplicate(unwrap(predecessors(g, v)))
              /\ \A w \in NodeIds :
                    /\ w \in SeqToSet(unwrap(successors(g, v)))
                          <=> EdgesBetween(g, v, w) # {}
                    /\ w \in SeqToSet(unwrap(predecessors(g, v)))
                          <=> EdgesBetween(g, w, v) # {}
                    /\ OMContains(OMGet(g._sucs, v), w) =>
                          OMGet(OMGet(g._sucs, v), w) = Cardinality(EdgesBetween(g, v, w))
                    /\ OMContains(OMGet(g._preds, v), w) =>
                          OMGet(OMGet(g._preds, v), w) = Cardinality(EdgesBetween(g, w, v))

\* C3 witness: two parallel edges a -> b; with one removed b is still listed
\* once, with both removed it is not
C3_Witness ==
    /\ g._is_multigraph
    /\ Cardinality(EdgesBetween(g, "a", "b")) = 2
    /\ LET G1 == remove_edge(g, "a", "b", Some("e1"))
           G2 == remove_edge(G1, "a", "b", None)
       IN  /\ successors(G1, "a") = Some(<<"b">>)
           /\ predecessors(G1, "b") = Some(<<"a">>)
           /\ edge_count(G1) = 1
           /\ successors(G2, "a") = Some(<<>>)
           /\ predecessors(G2, "b") = Some(<<>>)

\* the nodes met by following the parent links from v for at most k steps
RECURSIVE AncestorsWithin(_, _, _)
AncestorsWithin(G, v, k) ==
    IF k = 0 \/ is_none(parent(G, v)) THEN {}
    ELSE {unwrap(parent(G, v))} \cup AncestorsWithin(G, unwrap(parent(G, v)), k - 1)
\* every ancestor of v: a chain without repetition has at most one link per node
Ancestors(G, v) == AncestorsWithin(G, v, Len(G._parent) + 1)

\* following the parent links from v ends at the root within k steps
RECURSIVE ReachesRootWithin(_, _, _)
ReachesRootWithin(G, v, k) ==
    \/ is_none(parent(G, v))
    \/ k > 0 /\ ReachesRootWithin(G, unwrap(parent(G, v)), k - 1)
ReachesRoot(G, v) == ReachesRootWithin(G, v, Len(G._parent) + 1)

\* C4: in a compound graph the parent links are acyclic in every state: no
\* node is its own ancestor and the links of every node lead to the root;
\* a set_parent call that would make a node its own ancestor is refused.
C4_HierarchyAcyclic ==
    g._is_compound =>
        \A v \in NodeIds :
            has_node(g, v) => v \notin Ancestors(g, v) /\ ReachesRoot(g, v)

\* C5: in a compound graph every present node has exactly one parent entry
\* (a present node or the root), the absent ids have none, children is keyed
\* by the present nodes and the root, and v is in children[p] iff
\* parent[v] = p.
C5_ParentChildren ==
    g._is_compound =>
        /\ NoDuplicateKey(g._parent)
        /\ NoDuplicateKey(g._children)
        /\ OMKeySet(g._parent) = OMKeySet(g._nodes)
        /\ OMKeySet(g._children) = OMKeySet(g._nodes) \cup {GRAPH_NODE}
        /\ \A i \in 1..Len(g._parent) :
              g._parent[i].v \in OMKeySet(g._nodes) \cup {GRAPH_NODE}
        /\ \A j \in 1..Len(g._children) :
              /\ NoDuplicateKey(g._children[j].v)
              /\ \A v \in NodeIds \cup {GRAPH_NODE} :
                    OMContains(g._children[j].v, v)
                        <=> (OMContains(g._parent, v)
                             /\ OMGet(g._parent, v) = g._children[j].k)

\* C5 witness: a chain c under b under a, built by set_parent, after which
\* removing b leaves the maps without b
C5_Witness ==
    /\ g._is_compound
    /\ parent(g, "c") = Some("b")
    /\ parent(g, "b") = Some("a")
    /\ parent(g, "a") = None
    /\ children(g, GRAPH_NODE) = <<"a">>
    /\ ~OMContains(remove_node(g, "b")._children, "b")

\* p is below v: v is met by following the parent links from p
ProperDescendant(G, p, v) == v \in Ancestors(G, p)

\* C6: in a compound graph set_parent(v, Some(p)) with p a proper descendant
\* of v returns the cycle error and changes nothing; so after a successful
\* set_parent(a, Some(b)) the call set_parent(b, Some(a)) fails and both
\* parents stay as they were.
C6_CycleRejected ==
    g._is_compound =>
        /\ \A v \in NodeIds, p \in NodeIds :
              ProperDescendant(g, p, v) =>
                  set_parent(g, v, Some(p)) = Result(g, "ErrCycle")
        /\ \A a \in NodeIds, b \in NodeIds :
              LET r1 == set_parent(g, a, Some(b)) IN
              (a # b /\ r1.ret = "Ok") =>
                  LET r2 == set_parent(r1.g, b, Some(a)) IN
                  /\ r2.ret = "ErrCycle"
                  /\ r2.g = r1.g
                  /\ parent(r2.g, a) = Some(b)
                  /\ parent(r2.g, b) = parent(r1.g, b)

\* C6 witness: set_parent has just returned the cycle error in a graph where
\* c is under b under a, and set_parent(a, Some(c)) is such a call
C6_Witness ==
    /\ ret = "ErrCycle"
    /\ parent(g, "c") = Some("b")
    /\ parent(g, "b") = Some("a")
    /\ ProperDescendant(g, "c", "a")
    /\ set_parent(g, "a", Some("c")).ret = "ErrCycle"

\* the names and labels a set_edge call is tried with in the properties
SuppliedNames == {Some("e1"), Some("e2")}
SuppliedLabels == {None, Some(1)}

\* C7: on a graph that is no multigraph set_edge with a name returns the
\* error and changes nothing (no endpoint is created); so no stored edge has
\* a name and a pair of nodes (ordered if directed, unordered if not) has at
\* most one edge.
C7_NamedEdgeRefused ==
    ~g._is_multigraph =>
        /\ \A v \in NodeIds, w \in NodeIds, name \in SuppliedNames,
              edge_label \in SuppliedLabels :
                  set_edge(g, v, w, edge_label, name) = Result(g, "ErrNamedEdge")
        /\ \A o \in SeqToSet(edges(g)) : is_none(o.name)
        /\ \A v \in NodeIds, w \in NodeIds :
              Cardinality(EdgesBetween(g, v, w)) +
                  (IF g._is_directed \/ v = w THEN 0
                   ELSE Cardinality(EdgesBetween(g, w, v))) <= 1

\* C7 witness: set_edge has just refused a name on a graph that holds an
\* unnamed edge a - b and lacks node c, which the refused call names
C7_Witness ==
    /\ ret = "ErrNamedEdge"
    /\ ~g._is_multigraph
    /\ has_edge(g, "a", "b", None)
    /\ ~has_node(g, "c")
    /\ set_edge(g, "a", "c", Some(1), Some("e1")) = Result(g, "ErrNamedEdge")

\* C8: on a graph built without the compound flag every set_parent call
\* (Some parent or None) returns the error and changes nothing, and
\* parent(v) is None for every v.
C8_NotCompound ==
    ~g._is_compound =>
        /\ \A v \in NodeIds, p \in Parents :
              set_parent(g, v, p) = Result(g, "ErrNotCompound")
        /\ \A v \in NodeIds : parent(g, v) = None

\* C8 witness: set_parent has just failed on a graph that is not compound
\* and lacks the nodes the call names
C8_Witness ==
    /\ ret = "ErrNotCompound"
    /\ ~g._is_compound
    /\ node_count(g) = 1
    /\ has_node(g, "a")
    /\ set_parent(g, "b", Some("c")).g._node_count = 1

\* v is listed by no predecessors / successors list of G
InNoNeighbourList(G, v) ==
    \A u \in NodeIds :
        /\ is_some(predecessors(G, u)) => v \notin SeqToSet(unwrap(predecessors(G, u)))
        /\ is_some(successors(G, u)) => v \notin SeqToSet(unwrap(successors(G, u)))

\* C9: remove_node(v) on a present v leaves v absent, no stored record with
\* v as an endpoint, v in no predecessors / successors list, every other
\* record stored, and edge_count lower by the number of records that were
\* incident to v; and in every state both endpoints of every stored record
\* are present nodes.
C9_RemoveNodeCascade ==
    /\ \A o \in SeqToSet(edges(g)) : has_node(g, o.v) /\ has_node(g, o.w)
    /\ \A v \in NodeIds :
          has_node(g, v) =>
              LET G2 == remove_node(g, v) IN
              /\ ~has_node(G2, v)
              /\ IncidentEdges(G2, v) = {}
              /\ SeqToSet(edges(G2)) = SeqToSet(edges(g)) \ IncidentEdges(g, v)
              /\ InNoNeighbourList(G2, v)
              /\ predecessors(G2, v) = None /\ successors(G2, v) = None
              /\ edge_count(G2) = edge_count(g) - Cardinality(IncidentEdges(g, v))
              /\ Len(edges(G2)) = edge_count(G2)

\* C9 witness: node a carries a self-loop and a named edge to b; removing a
\* removes both
C9_Witness ==
    /\ has_edge(g, "a", "a", None)
    /\ has_edge(g, "a", "b", Some("e1"))
    /\ edge_count(g) = 2
    /\ LET G2 == remove_node(g, "a") IN
          edge_count(G2) = 0 /\ has_node(G2, "b") /\ ~has_node(G2, "a")

\* C10: in a compound graph remove_node(group) leaves every former child of
\* group present with parent None and listed among the children of the
\* root, and group among the children of no remaining node or of the root.
C10_ChildrenToRoot ==
    g._is_compound =>
        \A group \in NodeIds :
            has_node(g, group) =>
                LET G2 == remove_node(g, group) IN
                /\ \A child \in SeqToSet(children(g, group)) :
                      /\ has_node(G2, child)
                      /\ parent(G2, child) = None
                      /\ child \in SeqToSet(children(G2, GRAPH_NODE))
                /\ \A u \in NodeIds \cup {GRAPH_NODE} :
                      group \notin SeqToSet(children(G2, u))

\* C10, for the children other than group itself: this part holds in every
\* state, so the only former child remove_node(group) does not keep is group
\* when it had been made its own parent (see C4).
C10_OtherChildrenToRoot ==
    g._is_compound =>
        \A group \in NodeIds :
            has_node(g, group) =>
                LET G2 == remove_node(g, group) IN
                /\ \A child \in SeqToSet(children(g, group)) \ {group} :
                      /\ has_node(G2, child)
                      /\ parent(G2, child) = None
                      /\ child \in SeqToSet(children(G2, GRAPH_NODE))
                /\ \A u \in NodeIds \cup {GRAPH_NODE} :
                      group \notin SeqToSet(children(G2, u))

(***************************************************************************)
(* The program with labelled edges: the calls of SpecLabels supply edge    *)
(* labels, on a graph built without the compound flag.                     *)
(***************************************************************************)
\* no call of SpecLabels adds an edge once the graph holds MaxLabelled edges
MaxLabelled == 2
\* the labels the set_edge calls of SpecLabels pass (E is an integer type)
GivenLabels == {None, Some(1)}

InitLabels ==
    /\ \E opts \in GraphOptions :
          /\ is_some(opts) => unwrap(opts).compound = None
          /\ g = GraphNew(opts)
    /\ ret = "Ok"

SetEdgeLabelled ==
    \E vw \in EdgeEnds, edge_label \in GivenLabels, name \in EdgeNames :
        /\ edge_count(g) < MaxLabelled \/ has_edge(g, vw[1], vw[2], name)
        /\ LET r == set_edge(g, vw[1], vw[2], edge_label, name) IN
              /\ g' = r.g
              /\ ret' = r.ret

NextLabels == SetNode \/ RemoveNode \/ SetEdgeLabelled \/ RemoveEdge

SpecLabels == InitLabels /\ [][NextLabels]_vars

\* G and H hold the same edges: records, labels, count and each node's
\* adjacency and counters
SameEdges(G, H) ==
    /\ G._edge_objs = H._edge_objs
    /\ G._edge_labels = H._edge_labels
    /\ G._edge_count = H._edge_count
    /\ OMKeySet(G._nodes) = OMKeySet(H._nodes)
    /\ \A u \in OMKeySet(G._nodes) :
          /\ OMGet(G._in, u) = OMGet(H._in, u)
          /\ OMGet(G._out, u) = OMGet(H._out, u)
          /\ OMGet(G._preds, u) = OMGet(H._preds, u)
          /\ OMGet(G._sucs, u) = OMGet(H._sucs, u)

\* C11: on an undirected graph edge and has_edge give the same answer for
\* (v, w, name) and (w, v, name); set_edge with either order leaves the same
\* edges, and when the edge is stored under one order set_edge with the
\* other order adds no edge and replaces its label iff one is supplied;
\* remove_edge with either order leaves the same graph.
C11_UndirectedSymmetry ==
    ~g._is_directed =>
        \A v \in NodeIds, w \in NodeIds, name \in EdgeNames :
            /\ edge(g, v, w, name) = edge(g, w, v, name)
            /\ has_edge(g, v, w, name) = has_edge(g, w, v, name)
            /\ remove_edge(g, v, w, name) = remove_edge(g, w, v, name)
            /\ \A edge_label \in GivenLabels \cup {Some(2)} :
                  /\ set_edge(g, v, w, edge_label, name).ret =
                         set_edge(g, w, v, edge_label, name).ret
                  /\ SameEdges(set_edge(g, v, w, edge_label, name).g,
                               set_edge(g, w, v, edge_label, name).g)
                  /\ has_edge(g, w, v, name) =>
                         /\ edge_count(set_edge(g, v, w, edge_label, name).g) = edge_count(g)
                         /\ edge(set_edge(g, v, w, edge_label, name).g, w, v, name) =
                                IF is_some(edge_label) THEN edge_label
                                ELSE edge(g, w, v, name)

\* C11 witness: an undirected graph whose nodes were created in the order
\* b, a holds the single record (a, b) with label 1, and set_edge(b, a)
\* with label 2 changes the label read by edge(a, b)
C11_Witness ==
    /\ ~g._is_directed
    /\ nodes(g) = <<"b", "a">>
    /\ edges(g) = <<Edge("a", "b", None)>>
    /\ edge(g, "b", "a", None) = Some(1)
    /\ edge(set_edge(g, "b", "a", Some(2), None).g, "a", "b", None) = Some(2)

(***************************************************************************)
(* filter_nodes: properties                                                *)
(***************************************************************************)
\* G and H have the same hierarchy: each node has the same parent and the
\* same set of children, the root included
SameHierarchy(G, H) ==
    /\ \A v \in NodeIds : parent(G, v) = parent(H, v)
    /\ \A v \in NodeIds \cup {GRAPH_NODE} :
          SeqToSet(children(G, v)) = SeqToSet(children(H, v))

\* C12: in every reachable state filter_nodes with the predicate that
\* accepts every node returns a graph with the same nodes() list, the same
\* edge records (v, w, name) and edge_count and, on a compound graph, the
\* same parent and children of every node.
C12_FilterAllRoundTrip ==
    /\ filter_nodes(g, NodeIds).ret = "Ok"
    /\ nodes(filter_nodes(g, NodeIds).copy) = nodes(g)
    /\ SeqToSet(edges(filter_nodes(g, NodeIds).copy)) = SeqToSet(edges(g))
    /\ edge_count(filter_nodes(g, NodeIds).copy) = edge_count(g)
    /\ g._is_compound => SameHierarchy(filter_nodes(g, NodeIds).copy, g)

\* what C13 says of the graph H returned by filter_nodes(filter) on G
FilteredBy(G, filter, H) ==
    /\ H._is_directed = G._is_directed
    /\ H._is_multigraph = G._is_multigraph
    /\ H._is_compound = G._is_compound
    /\ OMKeySet(H._nodes) = OMKeySet(G._nodes) \cap filter
    /\ node_count(H) = Cardinality(OMKeySet(G._nodes) \cap filter)
    /\ \A v \in OMKeySet(H._nodes) : OMGet(H._nodes, v) = OMGet(G._nodes, v)
    /\ \A o \in SeqToSet(edges(H)) :
          /\ o.v \in filter /\ o.w \in filter
          /\ \E q \in SeqToSet(edges(G)) : q.v = o.v /\ q.w = o.w
    /\ \A v \in NodeIds : is_some(parent(H, v)) => unwrap(parent(H, v)) \in filter
    /\ OMKeySet(H._parent) \subseteq filter
    /\ OMKeySet(H._in) \subseteq filter /\ OMKeySet(H._out) \subseteq filter

\* C13: in every reachable state and for every predicate, filter_nodes
\* returns a graph with the flags of the original, whose nodes are the
\* accepted nodes of the original with their labels, whose edges all join
\* accepted endpoints joined in the original, and in which no rejected node
\* appears as a node, a parent or an endpoint.
C13_FilterKeepsAccepted ==
    \A filter \in SUBSET NodeIds :
        /\ filter_nodes(g, filter).ret = "Ok"
        /\ FilteredBy(g, filter, filter_nodes(g, filter).copy)

\* C13, for the calls that return: this part holds in every state
C13_FilterKeepsAcceptedOnReturn ==
    \A filter \in SUBSET NodeIds :
        filter_nodes(g, filter).ret = "Ok" =>
            FilteredBy(g, filter, filter_nodes(g, filter).copy)

\* the nearest ancestor of v in G that filter accepts, looking at most k
\* links up; None when the chain ends at the root or k links show none
RECURSIVE NearestAcceptedWithin(_, _, _, _)
NearestAcceptedWithin(G, v, filter, k) ==
    IF k = 0 \/ is_none(parent(G, v)) THEN None
    ELSE IF unwrap(parent(G, v)) \in filter THEN parent(G, v)
    ELSE NearestAcceptedWithin(G, unwrap(parent(G, v)), filter, k - 1)

NearestAccepted(G, v, filter) == NearestAcceptedWithin(G, v, filter, Len(G._nodes))

\* what C14 says of the graph H returned by filter_nodes(filter) on G
ReparentedBy(G, filter, H) ==
    \A v \in OMKeySet(G._nodes) \cap filter :
        /\ has_node(H, v)
        /\ parent(H, v) = NearestAccepted(G, v, filter)
        /\ v \in SeqToSet(children(H, IF is_some(NearestAccepted(G, v, filter))
                                      THEN unwrap(NearestAccepted(G, v, filter))
                                      ELSE GRAPH_NODE))

\* C14: on a compound graph, in every reachable state and for every
\* predicate, filter_nodes returns a graph in which every accepted node is
\* present and has as parent its nearest accepted ancestor of the original
\* graph, or no parent (the root) when no ancestor is accepted.
C14_NearestAcceptedAncestor ==
    g._is_compound =>
        \A filter \in SUBSET NodeIds :
            /\ filter_nodes(g, filter).ret = "Ok"
            /\ ReparentedBy(g, filter, filter_nodes(g, filter).copy)

\* C14, for the calls that return: this part holds in every state
C14_NearestAcceptedAncestorOnReturn ==
    g._is_compound =>
        \A filter \in SUBSET NodeIds :
            filter_nodes(g, filter).ret = "Ok" =>
                ReparentedBy(g, filter, filter_nodes(g, filter).copy)

(***************************************************************************)
(* The program with traversals: a directed or an undirected graph is built *)
(* edge by edge (set_edge creates the endpoints), and dfs, preorder and    *)
(* postorder are called on what has been built.                            *)
(***************************************************************************)
\* no call of SpecTraversal adds an edge once the graph holds MaxTravEdges
MaxTravEdges == 4
TravIds == {"a", "b", "c", "d"}
\* the edges the calls draw from: the diamond a -> b, a -> c, b -> d,
\* c -> d, the back edges d -> a and b -> a, and a self-loop
TravEnds == {<<"a", "b">>, <<"a", "c">>, <<"b", "d">>, <<"c", "d">>,
             <<"d", "a">>, <<"b", "a">>, <<"c", "c">>}
\* the seed lists the traversal calls pass
SeedLists == {<<>>} \cup {<<v>> : v \in TravIds} \cup {<<v, w>> : v \in TravIds, w \in TravIds}

InitTraversal ==
    /\ \E d \in BOOLEAN :
          g = GraphNew(Some([directed |-> Some(d), multigraph |-> None, compound |-> None]))
    /\ ret = "Ok"

TraversalSetEdge ==
    \E vw \in TravEnds :
        /\ edge_count(g) < MaxTravEdges
        /\ LET r == set_edge(g, vw[1], vw[2], None, None) IN
              /\ g' = r.g
              /\ ret' = r.ret

SpecTraversal == InitTraversal /\ [][TraversalSetEdge]_vars

\* the orders in which neighbors(v) may list the neighbours of v
NeighborOrders(G, v) ==
    IF is_some(neighbors(G, v)) THEN Orders(unwrap(neighbors(G, v))) ELSE {<<>>}

\* every hash_order a traversal of G may meet (successors() has one order,
\* so a directed graph has a single case)
HashOrders(G) ==
    IF G._is_directed
    THEN {[a |-> <<>>, b |-> <<>>, c |-> <<>>, d |-> <<>>]}
    ELSE {[a |-> oa, b |-> ob, c |-> oc, d |-> od] :
             oa \in NeighborOrders(G, "a"), ob \in NeighborOrders(G, "b"),
             oc \in NeighborOrders(G, "c"), od \in NeighborOrders(G, "d")}

\* the nodes one navigation step away from v
NavSet(G, v) ==
    IF G._is_directed
    THEN IF is_some(successors(G, v)) THEN SeqToSet(unwrap(successors(G, v))) ELSE {}
    ELSE IF is_some(neighbors(G, v)) THEN unwrap(neighbors(G, v)) ELSE {}

\* the nodes reachable from the nodes of S in at most k navigation steps
RECURSIVE ReachWithin(_, _, _)
ReachWithin(G, S, k) ==
    IF k = 0 THEN S
    ELSE ReachWithin(G, S \cup UNION {NavSet(G, v) : v \in S}, k - 1)

Reach(G, S) == ReachWithin(G, S, Len(G._nodes))

AllPresent(G, vs) == \A i \in 1..Len(vs) : has_node(G, vs[i])

\* r, returned by dfs for the seeds vs, is Ok with a sequence that lists
\* every node reachable from a seed exactly once and no other node
ExactlyOnce(G, vs, r) ==
    /\ r.ret = "Ok"
    /\ NoDuplicate(r.acc)
    /\ SeqToSet(r.acc) = Reach(G, SeqToSet(vs))

\* C15: for every seed list whose seeds are all present and for both
\* orders, dfs returns Ok with a sequence that lists every node reachable
\* from a seed exactly once and no other node (so a node met for an earlier
\* seed is not listed again for a later or a repeated seed).
C15_ReachableExactlyOnce ==
    \A vs \in SeedLists, order \in {"pre", "post"}, hash_order \in HashOrders(g) :
        AllPresent(g, vs) => ExactlyOnce(g, vs, dfs(g, vs, order, hash_order))

\* C15, for the post order alone: this part holds in every state
C15_ReachableExactlyOncePost ==
    \A vs \in SeedLists, hash_order \in HashOrders(g) :
        AllPresent(g, vs) => ExactlyOnce(g, vs, dfs(g, vs, "post", hash_order))

\* the recursive pre-order: v is listed when it is first entered, then its
\* navigation nodes are entered from left to right; st holds visited and acc
RECURSIVE RecursivePre(_, _, _, _), RecursivePreEach(_, _, _, _, _)
RecursivePre(G, hash_order, v, st) ==
    IF v \in st.visited THEN st
    ELSE RecursivePreEach(G, hash_order, navigation(G, v, hash_order), 1,
                          [st EXCEPT !.visited = @ \cup {v}, !.acc = Append(@, v)])

RecursivePreEach(G, hash_order, vs, i, st) ==
    IF i > Len(vs) THEN st
    ELSE RecursivePreEach(G, hash_order, vs, i + 1, RecursivePre(G, hash_order, vs[i], st))

\* C16: on a directed graph, for every seed list whose seeds are all
\* present, dfs with order pre returns Ok with the sequence of the recursive
\* pre-order run over the seeds in order with one visited set; on the
\* diamond a -> b, a -> c, b -> d, c -> d preorder([a]) is [a, b, d, c].
C16_PreorderSequence ==
    g._is_directed =>
        \A vs \in SeedLists :
            AllPresent(g, vs) =>
                /\ dfs(g, vs, "pre", <<>>).ret = "Ok"
                /\ dfs(g, vs, "pre", <<>>).acc =
                       RecursivePreEach(g, <<>>, vs, 1, DfsStart).acc
                /\ preorder(g, vs, <<>>) =
                       [ret |-> "Ok", out |-> RecursivePreEach(g, <<>>, vs, 1, DfsStart).acc]

\* the recursive post-order: v is marked when it is entered, its navigation
\* nodes are entered from left to right, and v is listed on return
RECURSIVE RecursivePost(_, _, _, _), RecursivePostEach(_, _, _, _, _)
RecursivePost(G, hash_order, v, st) ==
    IF v \in st.visited THEN st
    ELSE [RecursivePostEach(G, hash_order, navigation(G, v, hash_order), 1,
                            [st EXCEPT !.visited = @ \cup {v}])
          EXCEPT !.acc = Append(@, v)]

RecursivePostEach(G, hash_order, vs, i, st) ==
    IF i > Len(vs) THEN st
    ELSE RecursivePostEach(G, hash_order, vs, i + 1, RecursivePost(G, hash_order, vs[i], st))

\* C17: on a directed graph, for every seed list whose seeds are all
\* present, dfs with order post (and postorder) returns the sequence of the
\* recursive post-order run over the seeds in order with one visited set.
C17_PostorderIsRecursive ==
    g._is_directed =>
        \A vs \in SeedLists :
            AllPresent(g, vs) =>
                /\ dfs(g, vs, "post", <<>>).ret = "Ok"
                /\ dfs(g, vs, "post", <<>>).acc =
                       RecursivePostEach(g, <<>>, vs, 1, DfsStart).acc
                /\ postorder(g, vs, <<>>) =
                       [ret |-> "Ok", out |-> RecursivePostEach(g, <<>>, vs, 1, DfsStart).acc]

\* C17 witness: the diamond a -> b, a -> c, b -> d, c -> d, on which
\* postorder([a]) is [d, b, c, a]
C17_Witness ==
    /\ g._is_directed
    /\ edges(g) = <<Edge("a", "b", None), Edge("a", "c", None),
                    Edge("b", "d", None), Edge("c", "d", None)>>
    /\ postorder(g, <<"a">>, <<>>) = [ret |-> "Ok", out |-> <<"d", "b", "c", "a">>]

\* m is listed before n in out
ListedBefore(out, m, n) ==
    \E i \in 1..Len(out) : \E j \in (i + 1)..Len(out) : out[i] = m /\ out[j] = n

\* every listed node one navigation step away from a listed node n, and
\* other than n, is listed before n
DescendantsFirst(G, out) ==
    \A n \in SeqToSet(out) :
        \A m \in (NavSet(G, n) \ {n}) \cap SeqToSet(out) : ListedBefore(out, m, n)

\* C18 as stated: in every graph, directed or not, cyclic or not, and for
\* every node n of the post-order output, every other node one navigation
\* step away from n that the traversal visited is listed before n.
C18_DescendantsFirst ==
    \A vs \in SeedLists, hash_order \in HashOrders(g) :
        AllPresent(g, vs) => DescendantsFirst(g, dfs(g, vs, "post", hash_order).acc)

\* C18 amended: for every node n of the post-order output, every other node
\* m one navigation step away from n that the traversal visited is listed
\* before n unless n is reachable from m (m and n lie on a common cycle,
\* as the two ends of an undirected edge always do).
C18_DescendantsFirstOffCycles ==
    \A n \in TravIds, m \in TravIds :
        (m # n /\ m \in NavSet(g, n) /\ n \notin Reach(g, {m})) =>
            \A vs \in SeedLists, hash_order \in HashOrders(g) :
                (AllPresent(g, vs) /\ n \in SeqToSet(dfs(g, vs, "post", hash_order).acc)) =>
                    ListedBefore(dfs(g, vs, "post", hash_order).acc, m, n)

\* C18 witness: a directed graph with the cycle a -> b -> a and the edge
\* b -> d off it; postorder([a]) lists d before b, and b before a although
\* a is one step away from b
C18_Witness ==
    /\ g._is_directed
    /\ "a" \in NavSet(g, "b") /\ "b" \in NavSet(g, "a") /\ "d" \in NavSet(g, "b")
    /\ "b" \notin Reach(g, {"d"})
    /\ dfs(g, <<"a">>, "post", <<>>).acc = <<"d", "b", "a">>

\* C19: for both orders, whenever some seed of the list is absent from the
\* graph, at whatever position, dfs returns the unknown-node error and has
\* visited and listed no node by then.
C19_SeedsCheckedFirst ==
    \A vs \in SeedLists, order \in {"pre", "post"}, hash_order \in HashOrders(g) :
        ~AllPresent(g, vs) =>
            /\ dfs(g, vs, order, hash_order).ret = "ErrUnknownNode"
            /\ dfs(g, vs, order, hash_order).visited = {}
            /\ dfs(g, vs, order, hash_order).acc = <<>>

\* C20: preorder and postorder return the empty sequence whenever some seed
\* is absent from the graph, and otherwise return what dfs returns for the
\* same graph, seeds and order.
C20_WrappersSwallow ==
    \A vs \in SeedLists, hash_order \in HashOrders(g) :
        IF AllPresent(g, vs)
        THEN /\ preorder(g, vs, hash_order).ret = dfs(g, vs, "pre", hash_order).ret
             /\ preorder(g, vs, hash_order).out = dfs(g, vs, "pre", hash_order).acc
             /\ postorder(g, vs, hash_order).ret = dfs(g, vs, "post", hash_order).ret
             /\ postorder(g, vs, hash_order).out = dfs(g, vs, "post", hash_order).acc
        ELSE /\ preorder(g, vs, hash_order) = [ret |-> "Ok", out |-> <<>>]
             /\ postorder(g, vs, hash_order) = [ret |-> "Ok", out |-> <<>>]

(***************************************************************************)
(* Queries on nodes and edges                                              *)
(***************************************************************************)
(***************************************************************************)
(* The program with a smaller load: the same calls as Spec on a graph      *)
(* built with any options, the edges and nested nodes together numbering   *)
(* at most MaxQueryLoad.  The properties of the queries and of the frame   *)
(* of set_node are stated over it.                                         *)
(***************************************************************************)
MaxQueryLoad == 1

QuerySetEdge ==
    \E vw \in EdgeEnds, edge_label \in EdgeLabels, name \in EdgeNames :
        /\ ret # "Diverges"
        /\ load(g) < MaxQueryLoad \/ has_edge(g, vw[1], vw[2], name)
        /\ LET r == set_edge(g, vw[1], vw[2], edge_label, name) IN
              /\ g' = r.g
              /\ ret' = r.ret

QuerySetParent ==
    \E v \in NodeIds, p \in Parents :
        /\ ret # "Diverges"
        /\ load(g) < MaxQueryLoad \/ is_none(p) \/ is_some(parent(g, v))
        /\ LET r == set_parent(g, v, p) IN
              /\ g' = r.g
              /\ ret' = r.ret

NextQueries == SetNode \/ RemoveNode \/ QuerySetEdge \/ RemoveEdge \/ QuerySetParent

SpecQueries == Init /\ [][NextQueries]_vars

\* the identifiers a query may be called with: the ids the calls draw from,
\* one id no call creates, and the reserved root identifier
QueryIds == NodeIds \cup {"d", GRAPH_NODE}

\* C21: predecessors(v) and successors(v) are None iff v is not a node and
\* Some(list) iff it is; a node that is removed and created again has empty
\* predecessor and successor lists.
C21_PredsSuccsPresence ==
    \A v \in QueryIds :
        /\ is_none(predecessors(g, v)) <=> ~has_node(g, v)
        /\ is_none(successors(g, v)) <=> ~has_node(g, v)
        /\ is_none(predecessors(remove_node(g, v), v))
        /\ is_none(successors(remove_node(g, v), v))
        /\ predecessors(set_node(remove_node(g, v), v, None), v) = Some(<<>>)
        /\ successors(set_node(remove_node(g, v), v, None), v) = Some(<<>>)

\* C21 witness: a is the predecessor of b and b the successor of a, c is a
\* node with neither, d is no node
C21_Witness ==
    /\ predecessors(g, "b") = Some(<<"a">>)
    /\ successors(g, "a") = Some(<<"b">>)
    /\ predecessors(g, "c") = Some(<<>>)
    /\ successors(g, "c") = Some(<<>>)
    /\ predecessors(g, "d") = None

\* H is G but for the labels of the edges, which are stored under the same
\* keys, each once
SameButEdgeLabels(G, H) ==
    /\ [H EXCEPT !._edge_labels = G._edge_labels] = G
    /\ OMKeySet(H._edge_labels) = OMKeySet(G._edge_labels)
    /\ NoDuplicateKey(H._edge_labels)

\* C22: set_edge(v, w, label, name) on a canonical key that is stored
\* returns Ok and changes nothing but the label of that edge, which becomes
\* the supplied label, or stays as it is when none is supplied; the count,
\* the edge records, the in / out / preds / sucs maps, the nodes and the
\* labels of the other edges are as before.
C22_SetEdgeExisting ==
    \A v \in NodeIds, w \in NodeIds, name \in EdgeNames :
        has_edge(g, v, w, name) =>
            \A edge_label \in GivenLabels \cup {Some(2)} :
                /\ set_edge(g, v, w, edge_label, name).ret = "Ok"
                /\ SameButEdgeLabels(g, set_edge(g, v, w, edge_label, name).g)
                /\ \A k \in OMKeySet(g._edge_labels) :
                      OMGet(set_edge(g, v, w, edge_label, name).g._edge_labels, k) =
                          IF k = edge_args_to_id(g._is_directed, v, w, name) /\ is_some(edge_label)
                          THEN unwrap(edge_label)
                          ELSE OMGet(g._edge_labels, k)

\* C22 witness: a multigraph holds two edges between a and b, the named one
\* with label 1; set_edge on it with label 2 leaves two edges and the other
\* label, and set_edge on it with no label leaves label 1
C22_Witness ==
    /\ edge_count(g) = 2
    /\ edge(g, "a", "b", Some("e1")) = Some(1)
    /\ edge(g, "a", "b", None) = Some(0)
    /\ edge_count(set_edge(g, "a", "b", Some(2), Some("e1")).g) = 2
    /\ edge(set_edge(g, "a", "b", Some(2), Some("e1")).g, "a", "b", Some("e1")) = Some(2)
    /\ edge(set_edge(g, "a", "b", None, Some("e1")).g, "a", "b", Some("e1")) = Some(1)

\* the labels a set_node call may supply (N is an integer type)
SuppliedNodeLabels == {None, Some(1), Some(2)}

\* H is G but for the labels of the nodes, which are the same nodes, each
\* with the label it has in G except v, whose label is l
SameButLabelOf(G, H, v, l) ==
    /\ [H EXCEPT !._nodes = G._nodes] = G
    /\ OMKeySet(H._nodes) = OMKeySet(G._nodes)
    /\ NoDuplicateKey(H._nodes)
    /\ \A u \in OMKeySet(G._nodes) : node(H, u) = IF u = v THEN l ELSE node(G, u)

\* H is G with the new node v: v is last in nodes(), has label l, no
\* incident edge, empty adjacency, and on a compound graph no parent and
\* no child; the other nodes, the edges and the hierarchy among the other
\* nodes are as in G
CreatedIn(G, H, v, l) ==
    /\ nodes(H) = Append(nodes(G), v)
    /\ node_count(H) = node_count(G) + 1
    /\ \A u \in OMKeySet(G._nodes) : node(H, u) = node(G, u)
    /\ node(H, v) = l
    /\ in_edges(H, v, None) = Some(<<>>) /\ out_edges(H, v, None) = Some(<<>>)
    /\ predecessors(H, v) = Some(<<>>) /\ successors(H, v) = Some(<<>>)
    /\ SameEdges(G, [H EXCEPT !._nodes = G._nodes])
    /\ parent(H, v) = None
    /\ G._is_compound => children(H, v) = <<>> /\ children(H, GRAPH_NODE) = Append(children(G, GRAPH_NODE), v)
    /\ \A u \in OMKeySet(G._nodes) :
          parent(H, u) = parent(G, u) /\ children(H, u) = children(G, u)

\* C23: set_node on a present id changes nothing but that node's label,
\* which becomes the supplied label and stays as it is when none is
\* supplied (also when it is not the default label); set_node on an absent
\* id creates the node with the supplied or the default label and empty
\* adjacency.
C23_SetNodeFrame ==
    \A v \in NodeIds, value \in SuppliedNodeLabels :
        IF has_node(g, v)
        THEN /\ SameButLabelOf(g, set_node(g, v, value), v,
                               IF is_some(value) THEN value ELSE node(g, v))
             /\ is_some(value) =>
                    set_node(set_node(g, v, value), v, None) = set_node(g, v, value)
        ELSE CreatedIn(g, set_node(g, v, value), v,
                       IF is_some(value) THEN value ELSE Some(N_default))

\* C23 witness: on a compound graph a has the parent b, b has the child a
\* and c is no node; set_node(a) and set_node(b) with a label keep them,
\* set_node(c) creates c under the root
C23_Witness ==
    /\ parent(g, "a") = Some("b")
    /\ ~has_node(g, "c")
    /\ node(set_node(g, "a", Some(1)), "a") = Some(1)
    /\ parent(set_node(g, "a", Some(1)), "a") = Some("b")
    /\ children(set_node(g, "b", Some(1)), "b") = <<"a">>
    /\ children(set_node(g, "c", None), GRAPH_NODE) = <<"b", "c">>

\* the undirected multigraph with the two named edges a - b e1 and a - b e2
TwoNamedEdges ==
    set_edge(set_edge(GraphNew(Some([directed |-> Some(FALSE), multigraph |-> Some(TRUE),
                                     compound |-> None])),
                      "a", "b", None, Some("e1")).g,
             "a", "b", None, Some("e2")).g

\* H is G without the edge stored under the key e: one edge less, the other
\* edges in the same order with their labels, the same nodes
WithoutEdge(G, H, e) ==
    /\ edge_count(H) = edge_count(G) - 1
    /\ edges(H) = SelectSeq(edges(G), LAMBDA r : edge_obj_to_id(G._is_directed, r) # e)
    /\ OMKeySet(H._edge_labels) = OMKeySet(G._edge_labels) \ {e}
    /\ \A k \in OMKeySet(H._edge_labels) : OMGet(H._edge_labels, k) = OMGet(G._edge_labels, k)
    /\ H._nodes = G._nodes

\* C24: remove_edge(v, w, name) on a key that is not stored (no such pair,
\* another name, or the reversed pair of a directed graph) leaves the graph
\* as it is; on a stored key it removes that edge alone: edge_count drops
\* by one and every other edge stays with its label.  With the two named
\* edges e1 and e2 between the same nodes of an undirected multigraph,
\* edge_count is 2, and after removing e1 it is 1 and e2 is still there.
C24_RemoveEdgeFrame ==
    /\ \A v \in NodeIds, w \in NodeIds, name \in EdgeNames \cup {Some("e2")} :
          IF has_edge(g, v, w, name)
          THEN /\ ~has_edge(remove_edge(g, v, w, name), v, w, name)
               /\ WithoutEdge(g, remove_edge(g, v, w, name),
                              edge_args_to_id(g._is_directed, v, w, name))
          ELSE remove_edge(g, v, w, name) = g
    /\ edge_count(TwoNamedEdges) = 2
    /\ edge_count(remove_edge(TwoNamedEdges, "a", "b", Some("e1"))) = 1
    /\ has_edge(remove_edge(TwoNamedEdges, "a", "b", Some("e1")), "a", "b", Some("e2"))
    /\ ~has_edge(remove_edge(TwoNamedEdges, "a", "b", Some("e1")), "a", "b", Some("e1"))

\* C24 witness: a directed multigraph holds a -> b unnamed with label 1 and
\* a -> b named e1; removing e1 leaves one edge, the unnamed one with its
\* label, and removing b -> a removes nothing
C24_Witness ==
    /\ g._is_directed
    /\ edge_count(g) = 2
    /\ edge(g, "a", "b", None) = Some(1)
    /\ has_edge(g, "a", "b", Some("e1"))
    /\ edge_count(remove_edge(g, "a", "b", Some("e1"))) = 1
    /\ edge(remove_edge(g, "a", "b", Some("e1")), "a", "b", None) = Some(1)
    /\ remove_edge(g, "b", "a", None) = g

\* the three flags of a graph
Flags(G) == <<G._is_directed, G._is_multigraph, G._is_compound>>

\* the value of an option, or d when it is left unset
OptionOr(o, d) == IF is_some(o) THEN unwrap(o) ELSE d

\* C25: a graph built with no options, or with an option left unset, is
\* directed, no multigraph and not compound where nothing else was asked,
\* and no call of set_node, remove_node, set_edge, remove_edge or
\* set_parent changes any of the three flags.
C25_FlagsFixed ==
    /\ Flags(GraphNew(None)) = <<TRUE, FALSE, FALSE>>
    /\ \A opts \in GraphOptions \ {None} :
          Flags(GraphNew(opts)) = <<OptionOr(unwrap(opts).directed, TRUE),
                                    OptionOr(unwrap(opts).multigraph, FALSE),
                                    OptionOr(unwrap(opts).compound, FALSE)>>
    /\ [][Flags(g') = Flags(g)]_vars

\* C25 witness: an undirected compound multigraph still has its three flags
\* after three nodes were created and one of them was nested
C25_Witness ==
    /\ Flags(g) = <<FALSE, TRUE, TRUE>>
    /\ node_count(g) = 3
    /\ nested(g) = 1

\* C26: neighbors(v) is None iff v is no node; otherwise it lists, each
\* once and in some order, the ids that are a predecessor or a successor of
\* v, which are the other ends of the edges at v (v itself for a
\* self-loop); in an undirected graph w is a neighbor of v iff v is one of w.
C26_Neighbors ==
    \A v \in QueryIds :
        /\ is_none(neighbors(g, v)) <=> ~has_node(g, v)
        /\ has_node(g, v) =>
              /\ unwrap(neighbors(g, v)) =
                     SeqToSet(unwrap(predecessors(g, v))) \cup SeqToSet(unwrap(successors(g, v)))
              /\ \A w \in QueryIds :
                    w \in unwrap(neighbors(g, v)) <=>
                        \E i \in 1..Len(edges(g)) :
                            \/ edges(g)[i].v = v /\ edges(g)[i].w = w
                            \/ edges(g)[i].v = w /\ edges(g)[i].w = v
              /\ \A o \in NeighborOrders(g, v) :
                    NoDuplicate(o) /\ SeqToSet(o) = unwrap(neighbors(g, v))
              /\ ~g._is_directed =>
                    \A w \in unwrap(neighbors(g, v)) :
                        is_some(neighbors(g, w)) /\ v \in unwrap(neighbors(g, w))

\* C26 witness: a self-loop makes a both the predecessor and the successor
\* of a, and a is listed once among the neighbors of a; b is a node
\* without neighbors
C26_Witness ==
    /\ predecessors(g, "a") = Some(<<"a">>)
    /\ successors(g, "a") = Some(<<"a">>)
    /\ neighbors(g, "a") = Some({"a"})
    /\ NeighborOrders(g, "a") = {<<"a">>}
    /\ neighbors(g, "b") = Some({})

\* the number of times the record r occurs in the list s
Occurrences(s, r) == Cardinality({i \in 1..Len(s) : s[i] = r})

\* C27: node_edges(v, other) is None iff v is no node, and otherwise the
\* list in_edges(v, other) followed by the list out_edges(v, other), no
\* record dropped, so that a stored self-loop on v is listed twice;
\* in_edges(v) are the stored edges with target v, out_edges(v) those with
\* source v, and in_edges(v, u) keeps of them the ones with source u,
\* out_edges(v, w) the ones with target w.
C27_NodeEdges ==
    \A v \in QueryIds :
        /\ is_none(node_edges(g, v, None)) <=> ~has_node(g, v)
        /\ has_node(g, v) =>
              /\ SeqToSet(unwrap(in_edges(g, v, None))) = {r \in SeqToSet(edges(g)) : r.w = v}
              /\ SeqToSet(unwrap(out_edges(g, v, None))) = {r \in SeqToSet(edges(g)) : r.v = v}
              /\ NoDuplicate(unwrap(in_edges(g, v, None)))
              /\ NoDuplicate(unwrap(out_edges(g, v, None)))
              /\ \A r \in SeqToSet(edges(g)) :
                    Occurrences(unwrap(node_edges(g, v, None)), r) =
                        (IF r.w = v THEN 1 ELSE 0) + (IF r.v = v THEN 1 ELSE 0)
        /\ \A u \in QueryIds :
              /\ is_none(node_edges(g, v, Some(u))) <=> ~has_node(g, v)
              /\ has_node(g, v) =>
                    /\ in_edges(g, v, Some(u)) =
                           Some(SelectSeq(unwrap(in_edges(g, v, None)), LAMBDA r : r.v = u))
                    /\ out_edges(g, v, Some(u)) =
                           Some(SelectSeq(unwrap(out_edges(g, v, None)), LAMBDA r : r.w = u))
                    /\ node_edges(g, v, Some(u)) =
                           Some(unwrap(in_edges(g, v, Some(u))) \o unwrap(out_edges(g, v, Some(u))))

\* C27 witness: a has a self-loop and an edge to b; node_edges(a) lists the
\* self-loop twice, once as in-edge and once as out-edge
C27_Witness ==
    /\ g._is_directed
    /\ in_edges(g, "a", None) = Some(<<Edge("a", "a", None)>>)
    /\ out_edges(g, "a", None) = Some(<<Edge("a", "a", None), Edge("a", "b", None)>>)
    /\ node_edges(g, "a", None) =
           Some(<<Edge("a", "a", None), Edge("a", "a", None), Edge("a", "b", None)>>)
    /\ node_edges(g, "a", Some("b")) = Some(<<Edge("a", "b", None)>>)
    /\ node_edges(g, "d", None) = None

\* the list s without the ids that are not in S
Restricted(s, S) == SelectSeq(s, LAMBDA x : x \in S)

\* the list s followed by those ids of the list new that are not yet in it
RECURSIVE AppendNew(_, _, _)
AppendNew(s, new, i) ==
    IF i > Len(new) THEN s
    ELSE AppendNew(IF new[i] \in SeqToSet(s) THEN s ELSE Append(s, new[i]), new, i + 1)

C29_Children ==
    \A v \in QueryIds :
        IF g._is_compound
        THEN /\ NoDuplicate(children(g, v))
             /\ SeqToSet(children(g, v)) =
                    {u \in SeqToSet(nodes(g)) :
                        parent(g, u) = IF v = GRAPH_NODE THEN None ELSE Some(v)}
        ELSE children(g, v) = IF v = GRAPH_NODE THEN nodes(g) ELSE <<>>

\* C29 witness: on a compound graph a is the child of b, and b and c are
\* under the root
C29_Witness ==
    /\ parent(g, "a") = Some("b")
    /\ children(g, "b") = <<"a">>
    /\ children(g, GRAPH_NODE) = <<"b", "c">>
    /\ children(g, "a") = <<>>
    /\ children(g, "d") = <<>>

\* some stored edge leaves v, or on an undirected graph has v as an end
HasEdgeFrom(G, v) ==
    \E r \in SeqToSet(edges(G)) : r.v = v \/ (~G._is_directed /\ r.w = v)

\* C30: is_leaf(v) is true iff no edge leaves v (directed graph) or no edge
\* has v as an end (undirected graph), whatever children v has, and a call
\* of set_parent that returns leaves is_leaf of every node of the graph as
\* it was.
C30_IsLeaf ==
    /\ \A v \in QueryIds : is_leaf(g, v) <=> ~HasEdgeFrom(g, v)
    /\ \A v \in NodeIds, p \in Parents :
          set_parent(g, v, p).ret # "Diverges" =>
              \A u \in SeqToSet(nodes(g)) :
                  is_leaf(set_parent(g, v, p).g, u) = is_leaf(g, u)

\* C30 witness: on a compound graph b has the child a and no edge, and is a
\* leaf; it stays one when c is put under it too
C30_Witness ==
    /\ children(g, "b") = <<"a">>
    /\ edge_count(g) = 0
    /\ is_leaf(g, "b")
    /\ set_parent(g, "c", Some("b")).ret = "Ok"
    /\ is_leaf(set_parent(g, "c", Some("b")).g, "b")

(***************************************************************************)
(* filter_nodes and the rejected parents; termination; the frame of the    *)
(* traversal; the stored edge records                                      *)
(***************************************************************************)
\* C31: on a compound graph the graph filter_nodes returns holds no node
\* whose parent in the original graph the filter rejects: a rejected parent
\* takes all its children with it.
C31_RejectedParentRejectsChildren ==
    \A filter \in SUBSET NodeIds :
        filter_nodes(g, filter).ret = "Ok" =>
            \A u \in SeqToSet(nodes(filter_nodes(g, filter).copy)) :
                is_some(parent(g, u)) => unwrap(parent(g, u)) \in filter

\* r, what a traversal ended with, is a normal end: the stack is empty and
\* no node was listed twice (a node is listed when it is marked visited in
\* pre-order, and when its marker (n, true) is popped in post-order)
EndedEmpty(r) ==
    /\ r.ret = "Ok"
    /\ r.stack = <<>>
    /\ NoDuplicate(r.acc)
    /\ SeqToSet(r.acc) = r.visited

\* C32: every traversal call from present seeds, in either order and on any
\* graph (cyclic, undirected, with self-loops), ends with an empty stack,
\* each node marked visited once and, in post-order, each marker (n, true)
\* pushed once.
C32_TraversalTerminates ==
    \A vs \in SeedLists, order \in {"pre", "post"}, hash_order \in HashOrders(g) :
        AllPresent(g, vs) => EndedEmpty(dfs(g, vs, order, hash_order))

\* C33: on a compound graph every call set_parent(v, Some(p)) returns, with
\* success or with the cycle error: the walk up from p reaches the root.
C33_SetParentTerminates ==
    g._is_compound =>
        \A v \in NodeIds, p \in NodeIds :
            set_parent(g, v, Some(p)).ret \in {"Ok", "ErrCycle"}

RecordsKeyed(G, m) ==
    \A i \in 1..Len(m) :
        /\ m[i].k = edge_obj_to_id(G._is_directed, m[i].v)
        /\ OMContains(G._edge_objs, m[i].k)
        /\ OMGet(G._edge_objs, m[i].k) = m[i].v

\* C35: every stored edge record is normalized and agrees with its key: on
\* an undirected graph its v is not after its w; the key computed from the
\* record is the key it is stored under, in the edge map and in the in and
\* out maps; has_edge_with_obj and edge_with_obj given a record of edges()
\* find that edge and its label, and remove_edge_with_obj removes that edge
\* alone.
C35_RecordsNormalized ==
    /\ \A i \in 1..Len(g._edge_objs) :
          /\ ~g._is_directed => ~cmp_less(g._edge_objs[i].v.w, g._edge_objs[i].v.v)
          /\ edge_obj_to_id(g._is_directed, g._edge_objs[i].v) = g._edge_objs[i].k
          /\ has_edge_with_obj(g, g._edge_objs[i].v)
          /\ edge_with_obj(g, g._edge_objs[i].v) =
                 Some(OMGet(g._edge_labels, g._edge_objs[i].k))
          /\ ~has_edge_with_obj(remove_edge_with_obj(g, g._edge_objs[i].v), g._edge_objs[i].v)
          /\ WithoutEdge(g, remove_edge_with_obj(g, g._edge_objs[i].v), g._edge_objs[i].k)
    /\ NoDuplicate(edges(g))
    /\ \A v \in OMKeySet(g._nodes) :
          /\ RecordsKeyed(g, OMGet(g._in, v))
          /\ RecordsKeyed(g, OMGet(g._out, v))

\* C35 witness: an undirected multigraph on which set_edge(b, a) with the
\* name e1 was called holds the record (a, b, e1), which the calls with a
\* record find and remove
C35_Witness ==
    /\ ~g._is_directed
    /\ nodes(g) = <<"b", "a">>
    /\ edges(g) = <<Edge("a", "b", Some("e1"))>>
    /\ in_edges(g, "b", None) = Some(<<Edge("a", "b", Some("e1"))>>)
    /\ has_edge_with_obj(g, edges(g)[1])
    /\ edge_count(remove_edge_with_obj(g, edges(g)[1])) = 0

====
